---- MODULE Spec2Model ----
(***************************************************************************)
(* The nuxt-directus composables as a state machine.                        *)
(*                                                                          *)
(*   useDirectusItems  src/src/runtime/composables/useDirectusItems.ts      *)
(*   useDirectusAuth   src/src/runtime/composables/useDirectusAuth.ts       *)
(*   useDirectusAuth   src/unnamed/part_000 (cookie based variant; its      *)
(*                     operations are signIn, signOut, fetchUser and        *)
(*                     refreshTokens, the last one named                    *)
(*                     cookieRefreshTokens here)                            *)
(*                                                                          *)
(* JavaScript values are strings ("undefined", "null", "true", "false",     *)
(* "" and payload names); option objects are tuples of such strings, the    *)
(* empty tuple standing for an absent options argument.  An operation is    *)
(* split at its awaits: it issues an SDK request, the request settles       *)
(* (fulfilled, or rejected with an error), and the code after the await     *)
(* runs in the step in which the request settles.                           *)
(***************************************************************************)
EXTENDS Naturals, Sequences, FiniteSets

\* Number of calls of the cookie based auth composable that may be in flight
\* together (the other two composables are driven one call at a time).
MaxCalls == 2

Undefined == "undefined"
Null == "null"

\* JavaScript truthiness of a value, as used by `||`, `&&` and `if`.
Truthy(v) == v \notin {"undefined", "null", "false", "", "0"}

\* a || b
Or(a, b) == IF Truthy(a) THEN a ELSE b

------------------------------------------------------------------------------
\* Values the callers and the backend are drawn from.

Collections == {"articles", "pages"}
Singletons == {"settings"}
Ids == {"1", "2"}
IdLists == {"[1,2]", "[3]"}
Items == {"itemA", "itemB"}
Queries == {"undefined", "q1", "q2"}
AsyncParams == {"undefined", "lazy"}
AsyncKeys == {"undefined", "myKey"}
TokenFlags == {"undefined", "true", "false", "staticTok"}
ComposableFlags == {"undefined", "envTok"}

\* Errors an SDK request can reject with: an API error carrying a message and
\* an error list, a network failure (an Error with a message and no error
\* list), and a plain object without a message.
Errors == {"apiError", "networkError", "plainError"}

Message(e) == IF e = "plainError" THEN Undefined ELSE "msg:" \o e

ErrorList(e) ==
  CASE e = "apiError" -> "errors:apiError"
    [] e = "networkError" -> Undefined
    [] OTHER -> "errors:plainError"

Outcomes == {"ok"} \cup Errors

Identifiers == {"ann@example.com", "bob@example.com"}
Passwords == {"pw1", "pw2"}
Urls == {"undefined", "https://app/reset"}
Users == {"userA", "userB"}

\* Auth responses of the backend: one with a lifetime, one whose expires is null.
AuthResponses ==
  {[access_token |-> "access1", refresh_token |-> "refresh1",
    expires |-> "900000", expires_at |-> "at1"],
   [access_token |-> "access2", refresh_token |-> "refresh2",
    expires |-> "null", expires_at |-> "null"]}

------------------------------------------------------------------------------
\* Option objects.

NoOptions == <<>>

\* DirectusReqOptions: { useStaticToken }
ReqOptions == {NoOptions} \cup {<<Undefined, Undefined, Undefined, t>> : t \in TokenFlags}

\* DirectusReqItemOptions: { query, useStaticToken }
ReqItemOptions ==
  {NoOptions} \cup {<<q, Undefined, Undefined, t>> : q \in Queries, t \in TokenFlags}

\* AsyncDataDirectusReqItem: { query, params, key, useStaticToken }
AsyncOptions ==
  {NoOptions} \cup
  {<<q, p, Undefined, t>> : q \in Queries, p \in AsyncParams, t \in TokenFlags} \cup
  {<<q, Undefined, k, Undefined>> : q \in Queries, k \in AsyncKeys}

\* options?.query, options?.params, options?.key, options?.useStaticToken
OptQuery(o) == IF o = NoOptions THEN Undefined ELSE o[1]
OptParams(o) == IF o = NoOptions THEN Undefined ELSE o[2]
OptKey(o) == IF o = NoOptions THEN Undefined ELSE o[3]
OptToken(o) == IF o = NoOptions THEN Undefined ELSE o[4]

\* options?.toString(): Object.prototype.toString of a plain object.
OptToString(o) == IF o = NoOptions THEN Undefined ELSE "[object Object]"

\* ohash's hash(value): a digest of the serialisation of the value, modelled
\* by the serialisation itself (the digest is taken to be collision free).
Hash(parts) == <<"#">> \o parts

------------------------------------------------------------------------------
\* Records.

NoCommand == [fn |-> "none", args |-> <<>>, opts |-> <<>>]

NoAuth == [access_token |-> Undefined, refresh_token |-> Undefined,
           expires |-> Undefined, expires_at |-> Undefined]

\* A call in flight: the operation, where it is (pc), the arguments and options
\* it was called with, the token flag its client was resolved with, the SDK
\* command of the request it awaits, its async-data key (reads), the auth
\* response it holds, the user cell as it was when it was called, and whether
\* the call has changed the user cell or a token cookie so far.
NoCall == [op |-> "none", pc |-> "idle", args |-> <<>>, opts |-> <<>>,
           flag |-> Undefined, sdk |-> NoCommand,
           key |-> <<>>, derived |-> FALSE, hit |-> FALSE,
           auth |-> NoAuth, pre |-> <<>>, changed |-> FALSE]

\* The outcome of the call the last step settled: how it settled and with what,
\* the error of the SDK request that failed in it, what it wrote to the console,
\* whether it issued a request, and for a read whether its key was derived and
\* whether the data it was answered with is that of its own request, the auth
\* response it held, the user cell as it was when the call was made, and whether
\* the call changed the user cell or a token cookie.
NoResult == [op |-> "none", kind |-> "none", value |-> Undefined,
             failed |-> "ok", logged |-> <<>>, requested |-> FALSE,
             derived |-> FALSE, own |-> TRUE, auth |-> NoAuth, pre |-> <<>>,
             changed |-> FALSE]

NoEntry == [key |-> <<>>, request |-> <<>>, derived |-> FALSE]

VARIABLES
  composable,     \* which composable the application uses
  itemsToken,     \* useDirectusItems(useStaticToken)
  useNuxtCookies, \* runtime config public.directus.authConfig.useNuxtCookies
  user,           \* the reactive user cell
  accessToken,    \* the access-token cookie
  refreshToken,   \* the refresh-token cookie
  asyncData,      \* the async-data entry written last: its key and request
  calls,          \* the calls in flight
  result,         \* the outcome of the call settled by the last step
  lastAuth,       \* the authentication SDK call that succeeded last
  fetchUsed       \* whether fetchUser was ever called

vars == <<composable, itemsToken, useNuxtCookies, user, accessToken,
          refreshToken, asyncData, calls, result, lastAuth, fetchUsed>>

Slots == 1..MaxCalls

Idle == \A p \in Slots : calls[p].pc = "idle"

------------------------------------------------------------------------------
\* useDirectusItems

ItemsFrame ==
  UNCHANGED <<composable, itemsToken, useNuxtCookies, user, accessToken,
              refreshToken, lastAuth, fetchUsed>>

\* client(options?.useStaticToken || useStaticToken): the token flag handed to
\* useDirectusRest.
ClientFlag(o) == Or(OptToken(o), itemsToken)

\* The catch block shared by the wrappers: log the error list under a context
\* string when the error carries a message, the raw error otherwise.
CatchLog(context, e) ==
  IF Truthy(e) /\ Truthy(Message(e))
    THEN << <<context, ErrorList(e)>> >>
    ELSE << <<e>> >>

\* createItem's catch block: its else branch logs nothing.
createItemCatch(e) ==
  IF Truthy(e) /\ Truthy(Message(e))
    THEN << <<"Couldn't create item", ErrorList(e)>> >>
    ELSE << >>

\* try { return await client(flag).request(cmd) ...: the request is issued.
Request(op, args, opts, cmd) ==
  /\ composable = "useDirectusItems"
  /\ Idle
  /\ calls' = [calls EXCEPT ![1] =
                 [NoCall EXCEPT !.op = op, !.pc = "request", !.args = args,
                                !.opts = opts, !.flag = ClientFlag(opts),
                                !.sdk = cmd, !.pre = <<user>>]]
  /\ result' = NoResult
  /\ UNCHANGED asyncData
  /\ ItemsFrame

\* ... } catch (error) { log }: the request settles; the wrapper returns the
\* data, or logs what its catch block logs for the error and returns undefined.
Settle(op, catch) ==
  /\ calls[1].op = op
  /\ calls[1].pc = "request"
  /\ \E out \in Outcomes :
       result' = [NoResult EXCEPT
                    !.op = op, !.kind = "resolved",
                    !.value = IF out = "ok" THEN "data" ELSE Undefined,
                    !.failed = out,
                    !.logged = IF out = "ok" THEN << >> ELSE catch[out],
                    !.requested = TRUE, !.pre = calls[1].pre]
  /\ calls' = [calls EXCEPT ![1] = NoCall]
  /\ UNCHANGED asyncData
  /\ ItemsFrame

\* The request a read stands for: its operation, collection, item id, query
\* and async-data params.
ReadRequest(c) == <<c.op>> \o c.args \o <<OptQuery(c.opts), OptParams(c.opts)>>

\* useAsyncData(options?.key ?? key.value, handler, options?.params): the
\* handler runs unless the entry of that key already holds data.
UseAsyncData(op, args, opts, derivedKey, cmd) ==
  LET key == IF OptKey(opts) \in {Undefined, Null}
               THEN derivedKey ELSE <<OptKey(opts)>>
      hit == asyncData.key = key
  IN /\ composable = "useDirectusItems"
     /\ Idle
     /\ calls' = [calls EXCEPT ![1] =
                    [NoCall EXCEPT
                       !.op = op, !.pc = "asyncData", !.args = args,
                       !.opts = opts, !.key = key,
                       !.derived = (OptKey(opts) \in {Undefined, Null}),
                       !.hit = hit,
                       !.flag = IF hit THEN Undefined ELSE ClientFlag(opts),
                       !.sdk = IF hit THEN NoCommand ELSE cmd]]
     /\ result' = NoResult
     /\ UNCHANGED asyncData
     /\ ItemsFrame

\* useAsyncData resolves: with the data its entry holds, with the data the
\* handler fetched (which the entry then holds), or with the handler's error
\* in its error field; the wrapper has no catch block of its own.
AsyncDataSettle(op) ==
  LET c == calls[1] IN
  /\ c.op = op
  /\ c.pc = "asyncData"
  /\ \/ /\ c.hit
        /\ result' = [NoResult EXCEPT
                        !.op = op, !.kind = "resolved", !.value = "data",
                        !.derived = c.derived,
                        !.own = (asyncData.request = ReadRequest(c))]
        /\ UNCHANGED asyncData
     \/ /\ ~c.hit
        /\ result' = [NoResult EXCEPT
                        !.op = op, !.kind = "resolved", !.value = "data",
                        !.requested = TRUE, !.derived = c.derived]
        /\ asyncData' = [key |-> c.key, request |-> ReadRequest(c),
                         derived |-> c.derived]
     \/ /\ ~c.hit
        /\ \E e \in Errors :
             result' = [NoResult EXCEPT
                          !.op = op, !.kind = "resolved",
                          !.value = "asyncDataError", !.failed = e,
                          !.requested = TRUE, !.derived = c.derived]
        /\ UNCHANGED asyncData
  /\ calls' = [calls EXCEPT ![1] = NoCall]
  /\ ItemsFrame

createItem ==
  \/ \E collection \in Collections, item \in Items, options \in ReqItemOptions :
       Request("createItem", <<collection, item>>, options,
               [fn |-> "createItem",
                args |-> <<collection, item, OptQuery(options)>>,
                opts |-> << >>])
  \/ Settle("createItem", [e \in Errors |-> createItemCatch(e)])

createItems ==
  \/ \E collection \in Collections, items \in Items, options \in ReqItemOptions :
       Request("createItems", <<collection, items>>, options,
               [fn |-> "createItems",
                args |-> <<collection, items, OptQuery(options)>>,
                opts |-> << >>])
  \/ Settle("createItems", [e \in Errors |-> CatchLog("Couldn't create items", e)])

readItem ==
  \/ \E collection \in Collections, id \in Ids, options \in AsyncOptions :
       UseAsyncData("readItem", <<collection, id>>, options,
                    Hash(<<collection, id, OptQuery(options), OptParams(options)>>),
                    [fn |-> "readItem",
                     args |-> <<collection, id, OptQuery(options)>>,
                     opts |-> << >>])
  \/ AsyncDataSettle("readItem")

readItems ==
  \/ \E collection \in Collections, options \in AsyncOptions :
       UseAsyncData("readItems", <<collection, Undefined>>, options,
                    Hash(<<collection, OptToString(options)>>),
                    [fn |-> "readItems",
                     args |-> <<collection, OptQuery(options)>>,
                     opts |-> << >>])
  \/ AsyncDataSettle("readItems")

readSingleton ==
  \/ \E collection \in Singletons, options \in AsyncOptions :
       UseAsyncData("readSingleton", <<collection, Undefined>>, options,
                    Hash(<<collection, OptQuery(options), OptParams(options)>>),
                    [fn |-> "readSingleton",
                     args |-> <<collection, OptQuery(options)>>,
                     opts |-> << >>])
  \/ AsyncDataSettle("readSingleton")

updateItem ==
  \/ \E collection \in Collections, id \in Ids, item \in Items,
        options \in ReqItemOptions :
       Request("updateItem", <<collection, id, item>>, options,
               [fn |-> "updateItem",
                args |-> <<collection, id, item, OptQuery(options)>>,
                opts |-> << >>])
  \/ Settle("updateItem", [e \in Errors |-> CatchLog("Couldn't update item", e)])

updateItems ==
  \/ \E collection \in Collections, ids \in IdLists, item \in Items,
        options \in ReqItemOptions :
       Request("updateItems", <<collection, ids, item>>, options,
               [fn |-> "updateItems",
                args |-> <<collection, ids, item, OptQuery(options)>>,
                opts |-> << >>])
  \/ Settle("updateItems", [e \in Errors |-> CatchLog("Couldn't update items", e)])

updateSingleton ==
  \/ \E collection \in Singletons, item \in Items, options \in ReqItemOptions :
       Request("updateSingleton", <<collection, item>>, options,
               [fn |-> "updateSingleton",
                args |-> <<collection, item, OptQuery(options)>>,
                opts |-> << >>])
  \/ Settle("updateSingleton", [e \in Errors |-> CatchLog("Couldn't update singleton", e)])

deleteItem ==
  \/ \E collection \in Collections, id \in Ids, options \in ReqOptions :
       Request("deleteItem", <<collection, id>>, options,
               [fn |-> "deleteItem", args |-> <<collection, id>>,
                opts |-> << >>])
  \/ Settle("deleteItem", [e \in Errors |-> CatchLog("Couldn't delete item", e)])

deleteItems ==
  \/ \E collection \in Collections, idOrQuery \in IdLists \cup {"q1", "q2"},
        options \in ReqOptions :
       Request("deleteItems", <<collection, idOrQuery>>, options,
               [fn |-> "deleteItems", args |-> <<collection, idOrQuery>>,
                opts |-> << >>])
  \/ Settle("deleteItems", [e \in Errors |-> CatchLog("Couldn't delete items", e)])

NextItems ==
  \/ createItem \/ createItems
  \/ readItem \/ readItems \/ readSingleton
  \/ updateItem \/ updateItems \/ updateSingleton
  \/ deleteItem \/ deleteItems

InitItems ==
  /\ composable = "useDirectusItems"
  /\ itemsToken \in ComposableFlags
  /\ useNuxtCookies = "undefined"
  /\ user = Undefined
  /\ accessToken = Null
  /\ refreshToken = Null
  /\ asyncData = NoEntry
  /\ calls = [p \in Slots |-> NoCall]
  /\ result = NoResult
  /\ lastAuth = "none"
  /\ fetchUsed = FALSE

SpecItems == InitItems /\ [][NextItems]_vars

------------------------------------------------------------------------------
\* useDirectusAuth (src/src/runtime/composables/useDirectusAuth.ts)

\* LoginOptions: { mode, otp }
LoginOptions ==
  {NoOptions} \cup
  {<<m, o>> : m \in {"undefined", "json", "session"}, o \in {"undefined", "123456"}}

LoginMode(o) == IF o = NoOptions THEN Undefined ELSE o[1]
LoginOtp(o) == IF o = NoOptions THEN Undefined ELSE o[2]

\* defu with its arguments swapped: the default mode wins over the caller's.
DefuDefaultsWin(options, defaultMode) == <<defaultMode, LoginOtp(options)>>

\* defu(options, defaultOptions) with defaultOptions = { mode }: the fields of
\* options, a null or undefined mode replaced by the default.
Defu(options, defaultMode) ==
  <<IF LoginMode(options) \in {Undefined, Null}
      THEN defaultMode ELSE LoginMode(options),
    LoginOtp(options)>>

\* client(useStaticToken = false) of useDirectusAuth: the default applies to
\* an undefined argument.
AuthClientFlag(t) == IF t = Undefined THEN "false" ELSE t

\* readMe of useDirectusUser resolves with the user or rejects with an error.
ReadMeOutcomes == Users \cup Errors

\* setUser of useDirectusUser stores the value in the user cell.
StoreUser(value) == user' = value

AuthFrame ==
  UNCHANGED <<composable, itemsToken, useNuxtCookies, accessToken,
              refreshToken, asyncData, lastAuth, fetchUsed>>

\* The call is made and its first SDK request issued.
AuthRequest(op, pc, args, opts, flag, cmd) ==
  /\ composable = "useDirectusAuth"
  /\ Idle
  /\ calls' = [calls EXCEPT ![1] =
                 [NoCall EXCEPT !.op = op, !.pc = pc, !.args = args,
                                !.opts = opts, !.flag = flag, !.sdk = cmd,
                                !.pre = <<user>>]]
  /\ result' = NoResult
  /\ UNCHANGED user
  /\ AuthFrame

\* A catch block that logs and rethrows, as those of the cookie based variant.
AuthCaughtRethrows(context, e) ==
  /\ result' = [NoResult EXCEPT
                  !.op = calls[1].op, !.kind = "rejected",
                  !.value = IF Truthy(Message(e)) THEN ErrorList(e) ELSE e,
                  !.failed = e, !.logged = CatchLog(context, e),
                  !.requested = TRUE, !.auth = calls[1].auth,
                  !.pre = calls[1].pre]
  /\ calls' = [calls EXCEPT ![1] = NoCall]
  /\ UNCHANGED user
  /\ AuthFrame

\* catch (error) { log }: the call resolves with undefined.
AuthCaught(context, e) ==
  /\ result' = [NoResult EXCEPT
                  !.op = calls[1].op, !.kind = "resolved", !.value = Undefined,
                  !.failed = e, !.logged = CatchLog(context, e),
                  !.requested = TRUE, !.auth = calls[1].auth,
                  !.pre = calls[1].pre]
  /\ calls' = [calls EXCEPT ![1] = NoCall]
  /\ UNCHANGED user
  /\ AuthFrame

\* The auth request of login or refreshTokens settles: readMe is called next.
AuthResponded(op, pc, context) ==
  /\ calls[1].op = op
  /\ calls[1].pc = pc
  /\ \/ \E authResponse \in AuthResponses :
          /\ calls' = [calls EXCEPT ![1] =
                         [calls[1] EXCEPT
                            !.pc = "readMe", !.auth = authResponse,
                            !.sdk = [fn |-> "readMe", args |-> <<"false">>,
                                     opts |-> << >>]]]
          /\ result' = NoResult
          /\ UNCHANGED user
          /\ AuthFrame
     \/ \E e \in Errors : AuthCaught(context, e)

\* readMe settles: setUser(userData) and the tokens are returned.
UserRead(op, context) ==
  /\ calls[1].op = op
  /\ calls[1].pc = "readMe"
  /\ \E userData \in ReadMeOutcomes :
       IF userData \in Users
         THEN /\ StoreUser(userData)
              /\ result' = [NoResult EXCEPT
                              !.op = op, !.kind = "resolved",
                              !.value = "tokens", !.auth = calls[1].auth,
                              !.requested = TRUE, !.pre = calls[1].pre]
              /\ calls' = [calls EXCEPT ![1] = NoCall]
              /\ AuthFrame
         ELSE AuthCaught(context, userData)

\* A request wrapper without a return value settles.
AuthSettle(op, context) ==
  /\ calls[1].op = op
  /\ calls[1].pc = "request"
  /\ \/ /\ result' = [NoResult EXCEPT
                        !.op = op, !.kind = "resolved", !.value = Undefined,
                        !.requested = TRUE, !.pre = calls[1].pre]
        /\ calls' = [calls EXCEPT ![1] = NoCall]
        /\ UNCHANGED user
        /\ AuthFrame
     \/ \E e \in Errors : AuthCaught(context, e)

login ==
  \/ \E identifier \in Identifiers, password \in Passwords,
        options \in LoginOptions :
       LET defaultMode == IF Truthy(useNuxtCookies) THEN "json" ELSE "cookie"
           params == Defu(options, defaultMode)
       IN AuthRequest("login", "login", <<identifier, password>>, options,
                      AuthClientFlag(Undefined),
                      [fn |-> "login", args |-> <<identifier, password>>,
                       opts |-> params])
  \/ AuthResponded("login", "login", "Couldn't login user")
  \/ UserRead("login", "Couldn't login user")

refreshTokens ==
  \/ AuthRequest("refreshTokens", "refresh", << >>, NoOptions,
                 AuthClientFlag(Undefined),
                 [fn |-> "refresh", args |-> << >>, opts |-> << >>])
  \/ AuthResponded("refreshTokens", "refresh", "Couldn't refresh tokens")
  \/ UserRead("refreshTokens", "Couldn't refresh tokens")

logout ==
  \/ AuthRequest("logout", "logout", << >>, NoOptions,
                 AuthClientFlag(Undefined),
                 [fn |-> "logout", args |-> << >>, opts |-> << >>])
  \/ /\ calls[1].op = "logout"
     /\ calls[1].pc = "logout"
     /\ \/ /\ user' = Undefined
           /\ result' = [NoResult EXCEPT
                           !.op = "logout", !.kind = "resolved",
                           !.value = Undefined, !.requested = TRUE,
                           !.pre = calls[1].pre]
           /\ calls' = [calls EXCEPT ![1] = NoCall]
           /\ AuthFrame
        \/ \E e \in Errors : AuthCaught("Couldn't logut user", e)

passwordRequest ==
  \/ \E email \in Identifiers, reset_url \in Urls, useStaticToken \in TokenFlags :
       AuthRequest("passwordRequest", "request", <<email, reset_url>>,
                   <<useStaticToken>>, AuthClientFlag(useStaticToken),
                   [fn |-> "passwordRequest", args |-> <<email, reset_url>>,
                    opts |-> << >>])
  \/ AuthSettle("passwordRequest", "Couldn't request password reset")

passwordReset ==
  \/ \E token \in {"resetTok1", "resetTok2"}, password \in Passwords,
        useStaticToken \in TokenFlags :
       AuthRequest("passwordReset", "request", <<token, password>>,
                   <<useStaticToken>>, AuthClientFlag(useStaticToken),
                   [fn |-> "passwordReset", args |-> <<token, password>>,
                    opts |-> << >>])
  \/ AuthSettle("passwordReset", "Couldn't reset password")

inviteUser ==
  \/ \E email \in Identifiers, role \in {"editor", "viewer"},
        invite_url \in Urls, useStaticToken \in TokenFlags :
       AuthRequest("inviteUser", "request", <<email, role, invite_url>>,
                   <<useStaticToken>>, AuthClientFlag(useStaticToken),
                   [fn |-> "inviteUser", args |-> <<email, role, invite_url>>,
                    opts |-> << >>])
  \/ AuthSettle("inviteUser", "Couldn't invite user")

NextAuth ==
  \/ login \/ refreshTokens \/ logout
  \/ passwordRequest \/ passwordReset \/ inviteUser

InitAuth ==
  /\ composable = "useDirectusAuth"
  /\ itemsToken = Undefined
  /\ useNuxtCookies \in {"true", "false"}
  /\ user = Undefined
  /\ accessToken = Null
  /\ refreshToken = Null
  /\ asyncData = NoEntry
  /\ calls = [p \in Slots |-> NoCall]
  /\ result = NoResult
  /\ lastAuth = "none"
  /\ fetchUsed = FALSE

SpecAuth == InitAuth /\ [][NextAuth]_vars

------------------------------------------------------------------------------
\* useDirectusAuth (src/unnamed/part_000): tokens kept in cookies.

CookieFrame == UNCHANGED <<composable, itemsToken, useNuxtCookies, asyncData>>

\* signIn(identifier, password) as the callers use it.
Credentials == {<<"ann@example.com", "pw1">>, <<"bob@example.com", "pw2">>}

\* The lowest free slot: the slots are interchangeable.
FreeSlot(p) ==
  /\ calls[p].pc = "idle"
  /\ \A q \in Slots : q < p => calls[q].pc # "idle"

\* setUser: user.value = value
setUser(value) == user' = value

\* throw error.errors when the error carries a message, throw error otherwise.
Rethrown(e) == IF Truthy(e) /\ Truthy(Message(e)) THEN ErrorList(e) ELSE e

\* catch (error) { log; throw }: call p rejects.
Rejects(p, context, e) ==
  /\ result' = [NoResult EXCEPT
                  !.op = calls[p].op, !.kind = "rejected",
                  !.value = Rethrown(e), !.failed = e,
                  !.logged = CatchLog(context, e), !.requested = TRUE,
                  !.auth = calls[p].auth, !.changed = calls[p].changed]
  /\ calls' = [calls EXCEPT ![p] = NoCall]
  /\ UNCHANGED <<user, accessToken, refreshToken, lastAuth, fetchUsed>>
  /\ CookieFrame

\* A call starts in a free slot and issues its first request.
Starts(p, op, pc, args, cmd) ==
  /\ composable = "cookieAuth"
  /\ FreeSlot(p)
  /\ calls' = [calls EXCEPT ![p] =
                 [NoCall EXCEPT !.op = op, !.pc = pc, !.args = args,
                                !.sdk = cmd]]
  /\ result' = NoResult
  /\ UNCHANGED <<user, accessToken, refreshToken, lastAuth>>
  /\ CookieFrame

\* directus.login / directus.refresh settles for call p: the cookies are
\* written when expires is not null, then readMe is requested with the token.
TokensReceived(p, op, pc, context) ==
  /\ calls[p].op = op
  /\ calls[p].pc = pc
  /\ \/ \E authResponse \in AuthResponses :
          /\ IF authResponse.expires # Null
               THEN /\ refreshToken' = authResponse.refresh_token
                    /\ accessToken' = authResponse.access_token
               ELSE UNCHANGED <<accessToken, refreshToken>>
          /\ calls' = [calls EXCEPT ![p] =
                         [calls[p] EXCEPT
                            !.pc = "readMe", !.auth = authResponse,
                            !.sdk = [fn |-> "readMe",
                                     args |-> <<authResponse.access_token>>,
                                     opts |-> << >>],
                            !.changed = (<<accessToken', refreshToken'>> #
                                         <<accessToken, refreshToken>>)]]
          /\ lastAuth' = pc
          /\ result' = NoResult
          /\ UNCHANGED <<user, fetchUsed>>
          /\ CookieFrame
     \/ \E e \in Errors : Rejects(p, context, e)

\* The readMe request of signIn / refreshTokens settles for call p.
SessionRead(p, op, context) ==
  /\ calls[p].op = op
  /\ calls[p].pc = "readMe"
  /\ \/ \E res \in Users :
          /\ setUser(res)
          /\ result' = [NoResult EXCEPT
                          !.op = op, !.kind = "resolved", !.value = "tokens",
                          !.requested = TRUE, !.auth = calls[p].auth,
                          !.changed = (calls[p].changed \/ res # user)]
          /\ calls' = [calls EXCEPT ![p] = NoCall]
          /\ UNCHANGED <<accessToken, refreshToken, lastAuth, fetchUsed>>
          /\ CookieFrame
     \/ \E e \in Errors : Rejects(p, context, e)

\* A guard that only tests the cookie against undefined.
HasAccessTokenDefined == accessToken # Undefined

\* if (accessToken().value)
HasAccessToken == Truthy(accessToken)

fetchUser ==
  \/ \E p \in Slots :
       /\ HasAccessToken
       /\ Starts(p, "fetchUser", "readMe", << >>,
                 [fn |-> "readMe", args |-> << >>, opts |-> << >>])
       /\ fetchUsed' = TRUE
  \/ /\ composable = "cookieAuth"
     /\ ~HasAccessToken
     /\ result' = [NoResult EXCEPT
                     !.op = "fetchUser", !.kind = "resolved",
                     !.value = "user"]
     /\ fetchUsed' = TRUE
     /\ UNCHANGED <<user, accessToken, refreshToken, lastAuth, calls>>
     /\ CookieFrame
  \/ \E p \in Slots :
       /\ calls[p].op = "fetchUser"
       /\ calls[p].pc = "readMe"
       /\ \/ \E res \in Users :
               /\ setUser(res)
               /\ result' = [NoResult EXCEPT
                               !.op = "fetchUser", !.kind = "resolved",
                               !.value = "user", !.requested = TRUE,
                               !.changed = (res # user)]
               /\ calls' = [calls EXCEPT ![p] = NoCall]
               /\ UNCHANGED <<accessToken, refreshToken, lastAuth, fetchUsed>>
               /\ CookieFrame
          \/ \E e \in Errors : Rejects(p, "Couldn't fetch user", e)

signIn ==
  \/ \E p \in Slots, credentials \in Credentials :
       LET identifier == credentials[1]
           password == credentials[2]
       IN /\ Starts(p, "signIn", "login", <<identifier, password>>,
                    [fn |-> "login", args |-> <<identifier, password>>,
                     opts |-> << >>])
          /\ UNCHANGED fetchUsed
  \/ \E p \in Slots : TokensReceived(p, "signIn", "login", "Couldn't login user")
  \/ \E p \in Slots : SessionRead(p, "signIn", "Couldn't login user")

cookieRefreshTokens ==
  \/ \E p \in Slots :
       /\ Starts(p, "refreshTokens", "refresh", << >>,
                 [fn |-> "refresh", args |-> << >>, opts |-> << >>])
       /\ UNCHANGED fetchUsed
  \/ \E p \in Slots :
       TokensReceived(p, "refreshTokens", "refresh", "Couldn't refresh tokens")
  \/ \E p \in Slots : SessionRead(p, "refreshTokens", "Couldn't refresh tokens")

signOut ==
  \/ \E p \in Slots :
       /\ Starts(p, "signOut", "logout", << >>,
                 [fn |-> "logout", args |-> << >>, opts |-> << >>])
       /\ UNCHANGED fetchUsed
  \/ \E p \in Slots :
       /\ calls[p].op = "signOut"
       /\ calls[p].pc = "logout"
       /\ \/ /\ accessToken' = Null
             /\ refreshToken' = Null
             /\ user' = Null
             /\ lastAuth' = "logout"
             /\ result' = [NoResult EXCEPT
                             !.op = "signOut", !.kind = "resolved",
                             !.value = Undefined, !.requested = TRUE,
                             !.changed = (<<user, accessToken, refreshToken>> #
                                          <<Null, Null, Null>>)]
             /\ calls' = [calls EXCEPT ![p] = NoCall]
             /\ UNCHANGED fetchUsed
             /\ CookieFrame
          \/ \E e \in Errors : Rejects(p, "Couldn't logut user", e)

NextCookieAuth == fetchUser \/ signIn \/ cookieRefreshTokens \/ signOut

\* The cookies hold what the browser sent: nothing, an empty value, or the
\* tokens of an earlier session.
InitCookieAuth ==
  /\ composable = "cookieAuth"
  /\ itemsToken = Undefined
  /\ useNuxtCookies = Undefined
  /\ user = Null
  /\ \E cookies \in {<<Null, Null>>, <<"", Null>>, <<"access0", "refresh0">>} :
       /\ accessToken = cookies[1]
       /\ refreshToken = cookies[2]
  /\ asyncData = NoEntry
  /\ calls = [p \in Slots |-> NoCall]
  /\ result = NoResult
  /\ lastAuth = "none"
  /\ fetchUsed = FALSE

SpecCookieAuth == InitCookieAuth /\ [][NextCookieAuth]_vars

------------------------------------------------------------------------------
Init == InitItems \/ InitAuth \/ InitCookieAuth

Next == NextItems \/ NextAuth \/ NextCookieAuth

Spec == Init /\ [][Next]_vars

\* The two composables of src/src/runtime/composables.
SpecRuntime == (InitItems \/ InitAuth) /\ [][NextItems \/ NextAuth]_vars

------------------------------------------------------------------------------
\* Properties.

ReadOps == {"readItem", "readItems", "readSingleton"}

WriteOps == {"createItem", "createItems", "updateItem", "updateItems",
             "updateSingleton", "deleteItem", "deleteItems"}

AuthOps == {"login", "refreshTokens", "logout", "passwordRequest",
            "passwordReset", "inviteUser"}

SessionOps == {"signIn", "refreshTokens"}

\* C1: a read without options.key gets a key that identifies its request: its
\* key equals that of the async-data entry exactly when its request (operation,
\* collection, item id, query, params) is the entry's request, and the data it
\* is answered with is the data of its own request.
C1_KeyIdentifiesRequest ==
  /\ (calls[1].pc = "asyncData" /\ calls[1].derived /\ asyncData.derived)
       => ((calls[1].key = asyncData.key)
             <=> (ReadRequest(calls[1]) = asyncData.request))
  /\ (result.op \in ReadOps /\ result.derived /\ result.failed = "ok")
       => result.own

\* C2: a call in which an SDK request failed has written at least one console
\* entry by the time it settles.
C2_FailureLogged == result.failed # "ok" => Len(result.logged) >= 1

\* The arguments a wrapper is to hand to its SDK command, given its own.
GivenArgs(c) ==
  CASE c.op \in {"createItem", "createItems", "updateItem", "updateItems",
                 "updateSingleton", "readItem"}
         -> c.args \o <<OptQuery(c.opts)>>
    [] c.op \in {"readItems", "readSingleton"}
         -> <<c.args[1], OptQuery(c.opts)>>
    [] OTHER -> c.args

Forwarding(c) ==
  /\ c.op \in ReadOps \cup WriteOps \cup {"login", "passwordRequest",
                                         "passwordReset", "inviteUser"}
  /\ c.sdk.fn \notin {"none", "readMe"}

\* C3 as stated: every wrapper hands its SDK command exactly the arguments it
\* was given, login its options included (absent options staying absent).
C3_ForwardsExactly ==
  \A p \in Slots :
    Forwarding(calls[p]) =>
      /\ calls[p].sdk.fn = calls[p].op
      /\ calls[p].sdk.args = GivenArgs(calls[p])
      /\ calls[p].op = "login" => calls[p].sdk.opts = calls[p].opts

\* C3 as amended: the item wrappers and the password and invite wrappers hand
\* over exactly the arguments they were given; login hands over identifier and
\* password unchanged and an options object holding the caller's fields, with
\* mode set to "json" (useNuxtCookies) or "cookie" when the caller gave none.
C3_ForwardsWithDefaultMode ==
  \A p \in Slots :
    Forwarding(calls[p]) =>
      /\ calls[p].sdk.fn = calls[p].op
      /\ calls[p].sdk.args = GivenArgs(calls[p])
      /\ calls[p].op = "login" =>
           /\ calls[p].sdk.opts[2] = LoginOtp(calls[p].opts)
           /\ calls[p].sdk.opts[1] =
                IF LoginMode(calls[p].opts) \in {Undefined, Null}
                  THEN (IF useNuxtCookies = "true" THEN "json" ELSE "cookie")
                  ELSE LoginMode(calls[p].opts)

\* A login is in flight whose caller chose a mode other than the default one.
C3_Witness ==
  /\ calls[1].op = "login"
  /\ calls[1].pc = "login"
  /\ calls[1].opts = <<"session", "123456">>
  /\ useNuxtCookies = "true"

\* C4: the token flag an item operation resolves its client with is the
\* per-call options.useStaticToken whenever the call gives one, and the
\* composable's useStaticToken otherwise.
C4_PerCallFlagWins ==
  \A p \in Slots :
    (calls[p].op \in ReadOps \cup WriteOps /\ calls[p].sdk.fn # "none") =>
      calls[p].flag = IF OptToken(calls[p].opts) # Undefined
                        THEN OptToken(calls[p].opts)
                        ELSE itemsToken

\* C5: in the cookie based composable a call whose SDK request failed rejects,
\* with the error list when the error carries a message and with the raw error
\* otherwise, and the value it rejects with is never undefined.
C5_RejectsWithFailure ==
  (composable = "cookieAuth" /\ result.failed # "ok") =>
    /\ result.kind = "rejected"
    /\ result.value = IF Truthy(Message(result.failed))
                        THEN ErrorList(result.failed)
                        ELSE result.failed
    /\ result.value # Undefined

\* C6: with signIn, refreshTokens and signOut calls only, once no call is in
\* flight and the authentication request that succeeded last was logout, the
\* user cell and both token cookies are null.
C6_SignOutSticks ==
  (composable = "cookieAuth" /\ Idle /\ lastAuth = "logout" /\ ~fetchUsed) =>
    /\ user = Null
    /\ accessToken = Null
    /\ refreshToken = Null

C8_RejectedLeavesCells ==
  (composable = "cookieAuth" /\ result.op \in SessionOps
     /\ result.kind = "rejected") => ~result.changed

\* C9: when signIn or refreshTokens of the cookie based composable resolves,
\* the token cookies hold the access and refresh token of the auth response
\* it returns.
C9_CookiesHoldReturnedTokens ==
  (composable = "cookieAuth" /\ result.op \in SessionOps
     /\ result.kind = "resolved") =>
    /\ accessToken = result.auth.access_token
    /\ refreshToken = result.auth.refresh_token

\* The step is one of a fetchUser call: it starts, returns at once, or settles.
FetchUserStep ==
  \/ \E p \in Slots : calls[p].op = "fetchUser" /\ calls'[p] # calls[p]
  \/ \E p \in Slots : calls'[p].op = "fetchUser" /\ calls'[p] # calls[p]
  \/ result'.op = "fetchUser" /\ result' # result

\* C10: fetchUser issues a request only when the access-token cookie is not
\* empty; called with an empty cookie it leaves the user cell, both token
\* cookies and the calls in flight as they are and returns the user cell; and
\* no step of fetchUser writes a token cookie.
C10_FetchUserFrame ==
  [][ /\ \A p \in Slots :
           (calls[p].pc = "idle" /\ calls'[p].op = "fetchUser")
             => Truthy(accessToken)
      /\ (result'.op = "fetchUser" /\ ~result'.requested /\ result' # result) =>
           /\ ~Truthy(accessToken)
           /\ UNCHANGED <<user, accessToken, refreshToken, calls>>
           /\ result'.kind = "resolved"
           /\ result'.value = "user"
      /\ FetchUserStep => UNCHANGED <<accessToken, refreshToken>>
    ]_vars

\* fetchUser has returned the user cell without a request, the access-token
\* cookie being empty, while a signIn is in flight.
C10_Witness ==
  /\ composable = "cookieAuth"
  /\ result.op = "fetchUser"
  /\ ~result.requested
  /\ result.value = "user"
  /\ ~Truthy(accessToken)
  /\ \E p \in Slots : calls[p].op = "signIn"

====
